---------------------------- MODULE Spec2Model ----------------------------
(***************************************************************************)
(* A model of the DeVerify scraper (scraper/db.py, scraper/scraper.py).    *)
(*                                                                         *)
(* Spec        the persistence gateway (db.py) driven by arbitrary calls   *)
(*             of upsert_hackathon, get_collection and set_mongo_uri.      *)
(* SpecStatus  determine_status_from_iso applied to every pair of          *)
(*             timestamp arguments at every current time.                  *)
(* SpecExtract extract_listing_items applied to listing pages of up to     *)
(*             MaxHeadings headings.                                       *)
(* SpecMain    one run of the batch CLI (scraper.py main): the --mongo-uri *)
(*             override, then diagnose_db or scrape_all_from_listing over  *)
(*             a listing of up to MaxEntries headings.                     *)
(*                                                                         *)
(* Python values are modelled as strings where they must be compared with  *)
(* one another: None is "<None>", a missing dict key is "<missing>".       *)
(***************************************************************************)
EXTENDS Integers, Sequences, FiniteSets, TLC

VARIABLES
    MONGO_URI,   \* db.py: the module-level connection string
    _client,     \* db.py: the module-level client holder (NoClient = None)
    clients,     \* every MongoClient the gateway constructed, in creation order
    store,       \* the configured collection of the server behind each uri
    upserted,    \* history: per uri and id, how many upsert_hackathon calls returned
    lastName,    \* history: per uri and id, the last name a returned upsert gave
    lastCall,    \* the last gateway call and how it ended
    nCalls,      \* number of gateway calls made so far
    start_iso,   \* determine_status_from_iso: its first argument
    end_iso,     \* determine_status_from_iso: its second argument
    now,         \* determine_status_from_iso: what datetime.utcnow() returns
    status,      \* determine_status_from_iso: how the call ended (Pending before)
    page,        \* extract_listing_items: the loaded listing page
    items,       \* extract_listing_items: the list returned (NotReturned before)
    pc,          \* main(): where the run of the batch CLI stands
    argv,        \* main(): args.mongo_uri, args.diagnose_db, args.limit
    env_uri,     \* the environment's MONGO_URI (Missing: not set)
    idx,         \* scrape_all_from_listing: the loop's idx
    cur,         \* scrape_all_from_listing: name, begins_iso, ends_iso of the entry
    results,     \* scrape_all_from_listing: results
    exc,         \* scrape_all_from_listing: the exception on its way out
    events,      \* history: what the run did, in order
    diag         \* diagnose_db: the connection it made (NoDiag: none)

dbVars == <<MONGO_URI, _client, clients, store, upserted, lastName, lastCall, nCalls>>

statusVars == <<start_iso, end_iso, now, status>>

extractVars == <<page, items>>

mainVars == <<pc, argv, env_uri, idx, cur, results, exc, events, diag>>

vars == <<dbVars, statusVars, extractVars, mainVars>>

---------------------------------------------------------------------------
(* Bounds *)

MaxCalls == 4

\* Timestamps and the current time range over 0..MaxTime.
MaxTime == 2

\* The most h3[data-v-64e017b4] headings on a listing page.
MaxHeadings == 3

\* The most headings on the listing page of a run of the batch CLI.
MaxEntries == 2

---------------------------------------------------------------------------
(* Python values *)

None == "<None>"
Missing == "<missing>"

\* Python truthiness of the values the model uses (None and "" are falsy).
Truthy(v) == v # None /\ v # ""

---------------------------------------------------------------------------
(* scraper/db.py *)

DefaultUri == "mongodb://localhost:27017"
OtherUri == "mongodb://other:27017"
Uris == {DefaultUri, OtherUri}

\* _client = None
NoClient == 0

NoError == "ok"

\* A call that has not returned yet.
Pending == [ret |-> "<pending>", raised |-> NoError]

Ids == {"abc", "xyz"}
Names == {"X", "Y"}

\* A Python dict is a function from its keys.  Dict(id, name) is the dict
\* with the keys 'id' and 'name', each left out when given as Missing.
Dict(id, name) ==
    [k \in {x \in {"id"} : id # Missing} \cup {x \in {"name"} : name # Missing}
        |-> IF k = "id" THEN id ELSE name]

\* An argument that is no dict.
NotADict == [notdict |-> TRUE]
IsDict(item) == "notdict" \notin DOMAIN item

\* The arguments upsert_hackathon is called with.
Items ==
    {Dict(id, name) : id \in Ids \cup {Missing, None, ""}, name \in Names \cup {Missing}}
    \cup {NotADict}

NoItem == NotADict

\* The gateway's state as one value, so that calls compose.
DbState ==
    [MONGO_URI |-> MONGO_URI, _client |-> _client, clients |-> clients, store |-> store]

\* _ensure_client(): ctorOk says whether MongoClient(...) returns, pingOk
\* whether the ping does.  Returns the new state and the error raised.
_ensure_client_noreset(g, ctorOk, pingOk) ==
    IF g._client # NoClient
    THEN [g |-> g, err |-> NoError, cause |-> NoError, calls |-> <<>>]
    ELSE IF ~ctorOk
    THEN [g |-> g, err |-> "ClientError", cause |-> NoError,
          calls |-> <<"MongoClient">>]
    ELSE LET id == Len(g.clients) + 1
             made == Append(g.clients,
                        [uri |-> g.MONGO_URI, pinged |-> pingOk, closed |-> FALSE])
         IN  IF pingOk
             THEN [g |-> [g EXCEPT !.clients = made, !._client = id],
                   err |-> NoError, cause |-> NoError,
                   calls |-> <<"MongoClient", "ping">>]
             ELSE [g |-> [g EXCEPT !.clients = [made EXCEPT ![id].closed = TRUE],
                                   !._client = id],
                   err |-> "RuntimeError", cause |-> "PingError",
                   calls |-> <<"MongoClient", "ping", "close">>]

_ensure_client(g, ctorOk, pingOk) ==
    IF g._client # NoClient
    THEN [g |-> g, err |-> NoError, cause |-> NoError, calls |-> <<>>]
    ELSE IF ~ctorOk
    THEN [g |-> g, err |-> "ClientError", cause |-> NoError,
          calls |-> <<"MongoClient">>]
    ELSE LET id == Len(g.clients) + 1
             made == Append(g.clients,
                        [uri |-> g.MONGO_URI, pinged |-> pingOk, closed |-> FALSE])
         IN  IF pingOk
             THEN [g |-> [g EXCEPT !.clients = made, !._client = id],
                   err |-> NoError, cause |-> NoError,
                   calls |-> <<"MongoClient", "ping">>]
             ELSE [g |-> [g EXCEPT !.clients = [made EXCEPT ![id].closed = TRUE],
                                   !._client = NoClient],
                   err |-> "RuntimeError", cause |-> "PingError",
                   calls |-> <<"MongoClient", "ping", "close">>]

\* get_collection(): validates the connection, then returns a handle on the
\* collection of the server the live client was opened against.
get_collection(g, ctorOk, pingOk) ==
    LET r == _ensure_client(g, ctorOk, pingOk)
    IN  [g |-> r.g, err |-> r.err, cause |-> r.cause, calls |-> r.calls,
         coll |-> IF r.err = NoError THEN r.g.clients[r.g._client].uri ELSE None]

\* The position of the first document of docs whose id equals v (0: none).
FirstMatch(docs, v) ==
    IF \E i \in 1..Len(docs) : docs[i].id = v
    THEN CHOOSE i \in 1..Len(docs) :
            /\ docs[i].id = v
            /\ \A j \in 1..(i - 1) : docs[j].id # v
    ELSE 0

\* $set: the fields of item overwrite the document's, the others stay.
SetFields(doc, item) ==
    [k \in DOMAIN doc \cup DOMAIN item |-> IF k \in DOMAIN item THEN item[k] ELSE doc[k]]

update_one_insert_always(docs, item) ==
    Append(docs, item)

\* col.update_one({"id": item["id"]}, {"$set": item}, upsert=True)
update_one(docs, item) ==
    LET i == FirstMatch(docs, item.id)
    IN  IF i = 0
        THEN Append(docs, item)
        ELSE [docs EXCEPT ![i] = SetFields(docs[i], item)]

validate_key_only(item) ==
    IF ~IsDict(item) THEN "ValueError"
    ELSE IF "id" \notin DOMAIN item THEN "ValueError"
    ELSE NoError

\* The two checks upsert_hackathon makes before it touches the store.
validate(item) ==
    IF ~IsDict(item) THEN "ValueError"
    ELSE IF "id" \notin DOMAIN item \/ ~Truthy(item.id) THEN "ValueError"
    ELSE NoError

\* upsert_hackathon(item): updOk says whether update_one returns.
upsert_hackathon(g, item, ctorOk, pingOk, updOk) ==
    IF validate(item) # NoError
    THEN [g |-> g, err |-> validate(item), cause |-> NoError, calls |-> <<>>]
    ELSE LET c == get_collection(g, ctorOk, pingOk)
         IN  IF c.err # NoError
             THEN [g |-> c.g, err |-> c.err, cause |-> c.cause, calls |-> c.calls]
             ELSE IF ~updOk
             THEN [g |-> c.g, err |-> "UpdateError", cause |-> NoError,
                   calls |-> Append(c.calls, "update_one")]
             ELSE [g |-> [c.g EXCEPT !.store[c.coll] = update_one(@, item)],
                   err |-> NoError, cause |-> NoError,
                   calls |-> Append(c.calls, "update_one")]

set_mongo_uri_keep_client(g, uri) ==
    IF ~Truthy(uri) THEN [g |-> g, calls |-> <<>>]
    ELSE [g |-> [g EXCEPT !.MONGO_URI = uri], calls |-> <<>>]

set_mongo_uri_no_close(g, uri) ==
    IF ~Truthy(uri) THEN [g |-> g, calls |-> <<>>]
    ELSE [g |-> [g EXCEPT !.MONGO_URI = uri, !._client = NoClient], calls |-> <<>>]

\* set_mongo_uri(uri)
set_mongo_uri(g, uri) ==
    IF ~Truthy(uri) THEN [g |-> g, calls |-> <<>>]
    ELSE [g |-> [g EXCEPT !.MONGO_URI = uri,
                          !.clients = IF g._client # NoClient
                                      THEN [@ EXCEPT ![g._client].closed = TRUE]
                                      ELSE @,
                          !._client = NoClient],
          calls |-> IF g._client # NoClient THEN <<"close">> ELSE <<>>]

\* The gateway's variables take the values of state g.
SetDb(g) ==
    /\ MONGO_URI' = g.MONGO_URI
    /\ _client' = g._client
    /\ clients' = g.clients
    /\ store' = g.store

\* The history of returned upserts.
Record(r, uri, item) ==
    IF r.err = NoError
    THEN /\ upserted' = [upserted EXCEPT ![uri][item.id] = @ + 1]
         /\ lastName' = IF "name" \notin DOMAIN item THEN lastName
                        ELSE [lastName EXCEPT ![uri][item.id] = item.name]
    ELSE UNCHANGED <<upserted, lastName>>

---------------------------------------------------------------------------
(* scraper/scraper.py: determine_status_from_iso *)

\* A timestamp argument: None, the empty string, a string that is no ISO
\* timestamp, or an ISO timestamp of time t written without an offset
\* (suffix ""), with a trailing "Z", or with the offset "+00:00".
NoneIso == [form |-> "none", t |-> 0, suffix |-> ""]
EmptyIso == [form |-> "empty", t |-> 0, suffix |-> ""]
MalformedIso == [form |-> "malformed", t |-> 0, suffix |-> ""]
Iso(t, suffix) == [form |-> "iso", t |-> t, suffix |-> suffix]

Times == 0..MaxTime
IsoValues ==
    {NoneIso, EmptyIso, MalformedIso}
    \cup {Iso(t, x) : t \in Times, x \in {"", "Z", "+00:00"}}

\* Python truthiness of an argument: None and "" are falsy.
TruthyIso(v) == v.form \notin {"none", "empty"}

\* str.replace("Z", "+00:00")
ReplaceZ(v) == IF v.form = "iso" /\ v.suffix = "Z" THEN Iso(v.t, "+00:00") ELSE v

\* datetime.fromisoformat: a naive datetime for a timestamp without offset,
\* an aware one for a timestamp with an offset, ValueError otherwise (a bare
\* "Z" is no offset fromisoformat is given here: ReplaceZ ran before).
fromisoformat(v) ==
    IF v.form = "iso" /\ v.suffix = ""
    THEN [exc |-> NoError, set |-> TRUE, aware |-> FALSE, t |-> v.t]
    ELSE IF v.form = "iso" /\ v.suffix = "+00:00"
    THEN [exc |-> NoError, set |-> TRUE, aware |-> TRUE, t |-> v.t]
    ELSE [exc |-> "ValueError", set |-> FALSE, aware |-> FALSE, t |-> 0]

\* s = None / e = None
NoDatetime == [exc |-> NoError, set |-> FALSE, aware |-> FALSE, t |-> 0]

\* Lines 194-201: the argument parsed when truthy, None otherwise.
ParseArg(v) == IF TruthyIso(v) THEN fromisoformat(ReplaceZ(v)) ELSE NoDatetime

\* Lines 202-207, the comparisons of the naive utcnow() with the parsed
\* datetimes, in the order Python evaluates them: comparing a naive datetime
\* with an aware one raises TypeError.  Returns the status returned, the
\* exception raised, or "fallthrough" when no return statement is reached.
Compare(s, e, n) ==
    IF s.set /\ s.aware THEN "TypeError"                     \* now < s
    ELSE IF s.set /\ n < s.t THEN "upcoming"
    ELSE IF s.set /\ e.set /\ e.aware THEN "TypeError"       \* s <= now <= e
    ELSE IF s.set /\ e.set /\ s.t <= n /\ n <= e.t THEN "running"
    ELSE IF e.set /\ e.aware THEN "TypeError"                \* now > e
    ELSE IF e.set /\ n > e.t THEN "ended"
    ELSE "fallthrough"

\* The body of the try block: what it returns or raises.
TryBody(start, end, n) ==
    LET s == ParseArg(start)
    IN  IF s.exc # NoError THEN s.exc
        ELSE LET e == ParseArg(end)
             IN  IF e.exc # NoError THEN e.exc
                 ELSE Compare(s, e, n)

Statuses == {"upcoming", "running", "ended"}

determine_status_from_iso_typeerror_only(start, end, n) ==
    LET b == TryBody(start, end, n)
    IN  IF b \in Statuses THEN [ret |-> b, raised |-> NoError]
        ELSE IF b = "TypeError" \/ b = "fallthrough"
        THEN [ret |-> "upcoming", raised |-> NoError]
        ELSE [ret |-> None, raised |-> b]

\* determine_status_from_iso(start_iso, end_iso) at current time n: `except
\* Exception: pass` and the final return make every other outcome "upcoming".
determine_status_from_iso(start, end, n) ==
    LET b == TryBody(start, end, n)
    IN  IF b \in Statuses THEN [ret |-> b, raised |-> NoError]
        ELSE [ret |-> "upcoming", raised |-> NoError]

---------------------------------------------------------------------------
(* scraper/scraper.py: extract_listing_items *)

\* A URL: scheme, host and path.  NoUrl stands for the empty string.
Url(scheme, host, path) == [scheme |-> scheme, host |-> host, path |-> path]
NoUrl == Url("", "", "")

\* The href attribute of an anchor: kind "none" (no attribute: get_attribute
\* returns None), "empty" (href=""), "abs" (scheme://host/path), "protorel"
\* (//host/path) or "rel" (/path).
Href(kind, scheme, host, path) ==
    [kind |-> kind, scheme |-> scheme, host |-> host, path |-> path]
NoHref == Href("none", "", "", "")
EmptyHref == Href("empty", "", "", "")

TruthyHref(h) == h.kind \notin {"none", "empty"}

\* urljoin(base, href) (normalize_url): an absolute href stands, a href with
\* no scheme takes the base's, a path alone takes the base's scheme and host.
urljoin(base, href) ==
    IF href.kind = "abs" THEN Url(href.scheme, href.host, href.path)
    ELSE IF href.kind = "protorel" THEN Url(base.scheme, href.host, href.path)
    ELSE IF href.kind = "rel" THEN Url(base.scheme, base.host, href.path)
    ELSE base

\* Lines 86-91: "//host/path" becomes "https://host/path" before the join.
ResolveUrl(base, href) ==
    IF href.kind = "protorel"
    THEN urljoin(base, Href("abs", "https", href.host, href.path))
    ELSE urljoin(base, href)

\* The first element of a sequence of anchors, as query_selector("a") gives
\* it: [found, href].
FirstAnchor(anchors) ==
    IF anchors = <<>> THEN [found |-> FALSE, href |-> NoHref]
    ELSE [found |-> TRUE, href |-> anchors[1]]

\* query_selector("a[href]"): the first anchor that has an href attribute.
FirstWithHref(anchors) ==
    IF \E i \in 1..Len(anchors) : anchors[i].kind # "none"
    THEN anchors[CHOOSE i \in 1..Len(anchors) :
                    /\ anchors[i].kind # "none"
                    /\ \A j \in 1..(i - 1) : anchors[j].kind = "none"]
    ELSE NoHref

\* Lines 57-69: the walk up at most `levels` parents from the heading, anc[k]
\* being the k-th ancestor; returns the href of the first anchor of the first
\* ancestor that contains one (None when the walk ends without).
RECURSIVE WalkForAnchor(_, _, _)
WalkForAnchor(anc, k, levels) ==
    IF k > levels \/ k > Len(anc) THEN NoHref
    ELSE IF anc[k].anchors # <<>> THEN anc[k].anchors[1]
    ELSE WalkForAnchor(anc, k + 1, levels)

AnchorLevels == 4
PeriodLevels == 6

\* Lines 50-80: the href found for heading h.
FindHref(h) ==
    LET a_el == FirstAnchor(h.sub)
        first == IF a_el.found THEN a_el.href
                 ELSE WalkForAnchor(h.anc, 1, AnchorLevels)
    IN  IF TruthyHref(first) THEN first ELSE FirstWithHref(h.sub)

\* Lines 103-119: the first ancestor, at most `levels` up, that contains a
\* div.submission-period.
RECURSIVE WalkForPeriod(_, _, _)
WalkForPeriod(anc, k, levels) ==
    IF k > levels \/ k > Len(anc) THEN [found |-> FALSE, text |-> None, dates |-> <<>>]
    ELSE IF anc[k].sp.found THEN anc[k].sp
    ELSE WalkForPeriod(anc, k + 1, levels)

\* (text or "").strip() on the texts the model uses.
Strip(text) ==
    IF text = None THEN ""
    ELSE IF text = " Hack A " THEN "Hack A"
    ELSE text

\* Lines 134-140, with the index k of the heading the entry was built from.
Entry(h, k, url) ==
    LET sp == WalkForPeriod(h.anc, 1, PeriodLevels)
    IN  [title |-> Strip(h.text),
         url |-> url,
         submission_period |-> IF sp.found THEN Strip(sp.text) ELSE None,
         begins_iso |-> IF sp.found /\ Len(sp.dates) >= 1 THEN sp.dates[1] ELSE NoneIso,
         ends_iso |-> IF sp.found /\ Len(sp.dates) >= 2 THEN sp.dates[2] ELSE NoneIso,
         h3 |-> k]

SeenNever(url, seen) == FALSE

\* Line 93: url in seen
Seen(url, seen) == url \in seen

\* Lines 44-140: the loop over the headings from the k-th on.
RECURSIVE ExtractFrom(_, _, _, _)
ExtractFrom(pg, k, acc, seen) ==
    IF k > Len(pg.h3_nodes) THEN acc
    ELSE LET h == pg.h3_nodes[k]
             href == FindHref(h)
             url == ResolveUrl(pg.url, href)
         IN  IF ~TruthyHref(href) THEN ExtractFrom(pg, k + 1, acc, seen)
             ELSE IF url = NoUrl \/ Seen(url, seen) THEN ExtractFrom(pg, k + 1, acc, seen)
             ELSE ExtractFrom(pg, k + 1, Append(acc, Entry(h, k, url)), seen \cup {url})

\* extract_listing_items(page): query_selector_all raising leaves no headings.
extract_listing_items(pg) ==
    IF pg.queryRaises THEN <<>>
    ELSE ExtractFrom(pg, 1, <<>>, {})

\* The listing pages the model draws from.
A_abs == Href("abs", "https", "devpost.com", "/a")
A_protorel == Href("protorel", "", "devpost.com", "/a")
A_rel == Href("rel", "", "", "/a")
B_abs == Href("abs", "https", "b.devpost.com", "/")
B_rel == Href("rel", "", "", "/b")

NoPeriod == [found |-> FALSE, text |-> None, dates |-> <<>>]
Period2 == [found |-> TRUE, text |-> "Jan 01 - 31", dates |-> <<Iso(0, ""), Iso(2, "")>>]
Period1 == [found |-> TRUE, text |-> None, dates |-> <<Iso(1, "Z")>>]

Plain == [anchors |-> <<>>, sp |-> NoPeriod]
With(anchors) == [anchors |-> anchors, sp |-> NoPeriod]
Card(anchors, sp) == [anchors |-> anchors, sp |-> sp]

Heading(text, sub, anc) == [text |-> text, sub |-> sub, anc |-> anc]

Headings ==
    { Heading("Hack A", <<A_abs>>, <<Card(<<>>, Period2)>>),
      Heading(" Hack A ", <<A_protorel>>, <<Plain>>),
      Heading("Hack A2", <<>>, <<With(<<A_rel>>)>>),
      Heading("Hack B", <<NoHref, B_rel>>, <<Plain, Card(<<>>, Period1)>>),
      Heading(None, <<>>, <<Plain, Plain, Plain, With(<<B_abs>>), Plain, Card(<<>>, Period2)>>),
      Heading("Deep", <<>>, <<Plain, Plain, Plain, Plain, With(<<A_abs>>)>>),
      Heading("Hidden", <<>>, <<With(<<NoHref, A_abs>>), With(<<B_abs>>)>>),
      Heading("Bare", <<NoHref>>, <<With(<<B_abs>>)>>),
      Heading("Empty", <<EmptyHref>>, <<Plain>>),
      Heading("Orphan", <<>>, <<>>) }

PageUrls == {Url("https", "devpost.com", "/hackathons"), Url("http", "devpost.com", "/hackathons")}

RECURSIVE SeqsUpTo(_, _)
SeqsUpTo(S, n) ==
    IF n = 0 THEN {<<>>}
    ELSE LET shorter == SeqsUpTo(S, n - 1)
         IN  shorter \cup {Append(q, x) : q \in {r \in shorter : Len(r) = n - 1}, x \in S}

Pages ==
    [url : PageUrls, h3_nodes : SeqsUpTo(Headings, MaxHeadings), queryRaises : {FALSE}]
    \cup [url : PageUrls, h3_nodes : SeqsUpTo(Headings, 1), queryRaises : {TRUE}]

NotReturned == <<[title |-> "<pending>"]>>

---------------------------------------------------------------------------
(* scraper/scraper.py: slug_from_url, diagnose_db, scrape_all_from_listing *)

\* path.rstrip("/") on the paths the model uses.
RstripSlash(path) == IF path = "/" THEN "" ELSE path

\* path.split("/")[-1] on the paths the model uses.
LastSegment(path) ==
    IF path = "/a" THEN "a"
    ELSE IF path = "/b" THEN "b"
    ELSE IF path = "/hackathons" THEN "hackathons"
    ELSE path

\* netloc.replace(".", "-") on the hosts the model uses.
DotsToDashes(host) ==
    IF host = "devpost.com" THEN "devpost-com"
    ELSE IF host = "b.devpost.com" THEN "b-devpost-com"
    ELSE host

\* slug_from_url(url)
slug_from_url(url) ==
    LET path == RstripSlash(url.path)
    IN  IF path = "" THEN DotsToDashes(url.host) ELSE LastSegment(path)

\* Lines 277-278: items[:limit] when limit > 0.
Truncate(entries, limit) ==
    IF limit > 0 /\ limit < Len(entries) THEN SubSeq(entries, 1, limit) ELSE entries

\* What a detail page holds: the text of its h1 (None: no h1) and the
\* data-iso-date attributes of its td[data-iso-date] cells.
DetailPages ==
    { [h1 |-> "", dates |-> <<EmptyIso>>],
      [h1 |-> "Hack A 2030", dates |-> <<Iso(2, ""), Iso(2, "")>>] }

\* x or y
Or(x, y) == IF TruthyIso(x) THEN x ELSE y

\* Lines 286-288: the locals of an iteration before the detail page is read.
FromListing(it) ==
    [name |-> it.title, begins_iso |-> it.begins_iso, ends_iso |-> it.ends_iso]

\* Lines 296-312: the locals after a detail page d was loaded.
Enrich(c, d) ==
    [name |-> IF d.h1 # None /\ Strip(d.h1) # "" THEN Strip(d.h1) ELSE c.name,
     begins_iso |-> IF Len(d.dates) >= 1 THEN Or(d.dates[1], c.begins_iso)
                    ELSE c.begins_iso,
     ends_iso |-> IF Len(d.dates) >= 2 THEN Or(d.dates[2], c.ends_iso)
                  ELSE c.ends_iso]

\* The text of a timestamp attribute, for the fallback submission period.
IsoText(v) == <<v.t, v.suffix>>

\* Lines 322-329: the listing's text, else the ISO dates there are, joined.
SubmissionPeriod(it, c) ==
    IF it.submission_period # None /\ it.submission_period # ""
    THEN <<it.submission_period>>
    ELSE (IF TruthyIso(c.begins_iso) THEN <<IsoText(c.begins_iso)>> ELSE <<>>)
         \o (IF TruthyIso(c.ends_iso) THEN <<IsoText(c.ends_iso)>> ELSE <<>>)

\* Lines 331-337: the document of entry `it` with locals c at time n.
Doc(it, c, n) ==
    [id |-> slug_from_url(it.url),
     name |-> c.name,
     submission_period |-> SubmissionPeriod(it, c),
     status |-> determine_status_from_iso(c.begins_iso, c.ends_iso, n).ret]

NavCaughtNone(nav) == nav = "ok"

\* Lines 293-314: the outcomes of detail_page.goto after which the iteration
\* goes on (`except PlaywrightTimeoutError: pass`); any other error leaves
\* the iteration for the handler of line 349.
NavCaught(nav) == nav \in {"ok", "timeout"}

NavOutcomes == {"ok", "timeout", "error"}

NoEntry == [name |-> "", begins_iso |-> NoneIso, ends_iso |-> NoneIso]
NoDiag == [uri |-> None, connected |-> FALSE, closed |-> FALSE]

Event(e, k, info) == [e |-> e, k |-> k, info |-> info]

\* The outcome a close() call leaves in the log: every close of the run is
\* guarded by `except Exception: pass`.
Closed(ok) == IF ok THEN NoError ELSE "CloseError"

\* Lines 266-268: p.chromium.launch, browser.new_context and
\* context.new_page are called in turn; the first n of them succeed.
Opens == <<"open_browser", "open_context", "open_page">>
OpenEvents(n) == [i \in 1..n |-> Event(Opens[i], 0, NoError)]
SessionOpen == Len(Opens)

\* Lines 292-319: the detail page of entry k is opened, goto ends as nav, and
\* the finally of line 315 calls detail_page.close() whatever nav was; what
\* close() itself does is discarded at lines 318-319 and nothing depends on
\* it.
DetailEvents(k, nav) ==
    <<Event("new_page", k, NoError), Event("goto", k, nav),
      Event("close_detail", k, NoError)>>

TeardownEventsOneGuard(pageOk, ctxOk, brOk) ==
    <<Event("close_page", 0, Closed(pageOk))>>
    \o (IF pageOk THEN <<Event("close_context", 0, Closed(ctxOk))>> ELSE <<>>)
    \o (IF pageOk /\ ctxOk THEN <<Event("close_browser", 0, Closed(brOk))>> ELSE <<>>)

\* Lines 351-363: page.close(), context.close() and browser.close() are
\* called in that order, each in a try of its own.
TeardownEvents(pageOk, ctxOk, brOk) ==
    <<Event("close_page", 0, Closed(pageOk)),
      Event("close_context", 0, Closed(ctxOk)),
      Event("close_browser", 0, Closed(brOk))>>

\* The outcomes <<pageOk, ctxOk, brOk>> of the three closes that a teardown
\* is run with: none raises, page.close() raises, context.close() raises,
\* all three raise.
CloseOutcomes ==
    {<<TRUE, TRUE, TRUE>>, <<FALSE, TRUE, TRUE>>, <<TRUE, FALSE, TRUE>>,
     <<FALSE, FALSE, FALSE>>}

---------------------------------------------------------------------------
(* The gateway driven by its callers *)

CallUpsert ==
    /\ nCalls < MaxCalls
    /\ \E item \in Items, ctorOk \in BOOLEAN, pingOk \in BOOLEAN, updOk \in BOOLEAN :
          LET r == upsert_hackathon(DbState, item, ctorOk, pingOk, updOk)
          IN  /\ SetDb(r.g)
              /\ Record(r, IF r.err = NoError THEN r.g.clients[r.g._client].uri
                           ELSE MONGO_URI, item)
              /\ lastCall' = [op |-> "upsert_hackathon", item |-> item, uri |-> None,
                              err |-> r.err, cause |-> r.cause, calls |-> r.calls]
    /\ nCalls' = nCalls + 1
    /\ UNCHANGED <<statusVars, extractVars, mainVars>>

CallGetCollection ==
    /\ nCalls < MaxCalls
    /\ \E ctorOk \in BOOLEAN, pingOk \in BOOLEAN :
          LET r == get_collection(DbState, ctorOk, pingOk)
          IN  /\ SetDb(r.g)
              /\ lastCall' = [op |-> "get_collection", item |-> NoItem, uri |-> None,
                              err |-> r.err, cause |-> r.cause, calls |-> r.calls]
    /\ nCalls' = nCalls + 1
    /\ UNCHANGED <<upserted, lastName, statusVars, extractVars, mainVars>>

CallSetMongoUri ==
    /\ nCalls < MaxCalls
    /\ \E uri \in Uris \cup {None, ""} :
          LET r == set_mongo_uri(DbState, uri)
          IN  /\ SetDb(r.g)
              /\ lastCall' = [op |-> "set_mongo_uri", item |-> NoItem, uri |-> uri,
                              err |-> NoError, cause |-> NoError, calls |-> r.calls]
    /\ nCalls' = nCalls + 1
    /\ UNCHANGED <<upserted, lastName, statusVars, extractVars, mainVars>>

\* The module as imported: MONGO_URI from the environment or the default.
InitDb ==
    /\ MONGO_URI \in Uris
    /\ _client = NoClient
    /\ clients = <<>>
    /\ store = [u \in Uris |-> <<>>]
    /\ upserted = [u \in Uris |-> [i \in Ids |-> 0]]
    /\ lastName = [u \in Uris |-> [i \in Ids |-> Missing]]
    /\ lastCall = [op |-> "import", item |-> NoItem, uri |-> None,
                   err |-> NoError, cause |-> NoError, calls |-> <<>>]
    /\ nCalls = 0

\* No call of determine_status_from_iso is under way.
IdleStatus ==
    /\ start_iso = NoneIso
    /\ end_iso = NoneIso
    /\ now = 0
    /\ status = Pending

\* No call of extract_listing_items is under way.
IdleExtract ==
    /\ page = [url |-> NoUrl, h3_nodes |-> <<>>, queryRaises |-> FALSE]
    /\ items = NotReturned

\* No run of the batch CLI is under way.
IdleMain ==
    /\ pc = "idle"
    /\ argv = [mongo_uri |-> None, diagnose_db |-> FALSE, limit |-> 0]
    /\ env_uri = Missing
    /\ idx = 0
    /\ cur = NoEntry
    /\ results = <<>>
    /\ exc = NoError
    /\ events = <<>>
    /\ diag = NoDiag

Init == InitDb /\ IdleStatus /\ IdleExtract /\ IdleMain

Next == CallUpsert \/ CallGetCollection \/ CallSetMongoUri

Spec == Init /\ [][Next]_vars

---------------------------------------------------------------------------
(* determine_status_from_iso applied to its inputs *)

\* The gateway as imported with the default connection string, unused.
IdleDb == InitDb /\ MONGO_URI = DefaultUri

InitStatus ==
    /\ start_iso \in IsoValues
    /\ end_iso \in IsoValues
    /\ now \in Times
    /\ status = Pending
    /\ IdleDb
    /\ IdleExtract
    /\ IdleMain

DeriveStatus ==
    /\ status = Pending
    /\ status' = determine_status_from_iso(start_iso, end_iso, now)
    /\ UNCHANGED <<start_iso, end_iso, now, dbVars, extractVars, mainVars>>

NextStatus == DeriveStatus

SpecStatus == InitStatus /\ [][NextStatus]_vars

---------------------------------------------------------------------------
(* extract_listing_items applied to listing pages *)

InitExtract ==
    /\ page \in Pages
    /\ items = NotReturned
    /\ IdleDb
    /\ IdleStatus
    /\ IdleMain

ExtractListing ==
    /\ items = NotReturned
    /\ items' = extract_listing_items(page)
    /\ UNCHANGED <<page, dbVars, statusVars, mainVars>>

NextExtract == ExtractListing

SpecExtract == InitExtract /\ [][NextExtract]_vars

---------------------------------------------------------------------------
(* One run of the batch CLI: scraper.py main() *)

MainHeadings ==
    { Heading("Hack A", <<A_abs>>, <<Card(<<>>, Period2)>>),
      Heading(" Hack A ", <<A_protorel>>, <<Plain>>),
      Heading(None, <<NoHref, B_rel>>, <<Plain, Card(<<>>, Period1)>>),
      Heading("Hack C", <<>>, <<Plain, Plain, Plain, With(<<B_abs>>)>>) }

MainPages ==
    [url : {Url("https", "devpost.com", "/hackathons")},
     h3_nodes : SeqsUpTo(MainHeadings, MaxEntries),
     queryRaises : {FALSE}]

Limits == {0, 1}

\* The process starts: db.py is imported (MONGO_URI from the environment, or
\* the default), the arguments are parsed.
InitMain ==
    /\ env_uri \in {Missing, OtherUri}
    /\ argv \in [mongo_uri : {None, DefaultUri, OtherUri},
                 diagnose_db : BOOLEAN,
                 limit : Limits]
    /\ page \in MainPages
    /\ items = NotReturned
    /\ pc = "main"
    /\ idx = 0
    /\ cur = NoEntry
    /\ results = <<>>
    /\ exc = NoError
    /\ events = <<>>
    /\ diag = NoDiag
    /\ InitDb
    /\ MONGO_URI = (IF env_uri = Missing THEN DefaultUri ELSE env_uri)
    /\ start_iso = NoneIso
    /\ end_iso = NoneIso
    /\ now = 1
    /\ status = Pending

\* Lines 380-391: the --mongo-uri override, then the choice of the mode.
MainOverride ==
    /\ pc = "main"
    /\ IF Truthy(argv.mongo_uri)
       THEN LET r == set_mongo_uri(DbState, argv.mongo_uri)
            IN  /\ SetDb(r.g)
                /\ lastCall' = [op |-> "set_mongo_uri", item |-> NoItem,
                                uri |-> argv.mongo_uri, err |-> NoError,
                                cause |-> NoError, calls |-> r.calls]
                /\ nCalls' = nCalls + 1
       ELSE UNCHANGED <<MONGO_URI, _client, clients, store, lastCall, nCalls>>
    /\ pc' = IF argv.diagnose_db THEN "diagnose" ELSE "scrape"
    /\ UNCHANGED <<upserted, lastName, statusVars, extractVars,
                   argv, env_uri, idx, cur, results, exc, events, diag>>

\* diagnose_db(): connects to the environment's MONGO_URI (or the default),
\* pings, reads, and closes the client it connected.
DiagnoseDb ==
    /\ pc = "diagnose"
    /\ \E connectOk \in BOOLEAN :
          diag' = [uri |-> IF env_uri = Missing THEN DefaultUri ELSE env_uri,
                   connected |-> connectOk,
                   closed |-> connectOk]
    /\ pc' = "done"
    /\ UNCHANGED <<dbVars, statusVars, extractVars,
                   argv, env_uri, idx, cur, results, exc, events>>

\* Lines 265-268: the browser, the context and the listing page are opened.
Launch ==
    /\ pc = "scrape"
    /\ \E n \in 0..SessionOpen :
          /\ events' = events \o OpenEvents(n)
          /\ IF n = SessionOpen
             THEN /\ pc' = "goto"
                  /\ exc' = exc
             ELSE /\ pc' = "raised"
                  /\ exc' = "LaunchError"
    /\ UNCHANGED <<dbVars, statusVars, extractVars, argv, env_uri, idx, cur, results, diag>>

\* Lines 270-274: the listing is loaded; a failure leaves through the finally.
GotoListing ==
    /\ pc = "goto"
    /\ \E ok \in BOOLEAN :
          IF ok
          THEN /\ pc' = "extract"
               /\ exc' = exc
               /\ events' = Append(events, Event("goto_listing", 0, NoError))
          ELSE /\ pc' = "teardown"
               /\ exc' = "GotoError"
               /\ events' = Append(events, Event("goto_listing", 0, "GotoError"))
    /\ UNCHANGED <<dbVars, statusVars, extractVars, argv, env_uri, idx, cur, results, diag>>

\* Lines 276-280: the entries are extracted and cut to the limit.
ExtractEntries ==
    /\ pc = "extract"
    /\ items' = Truncate(extract_listing_items(page), argv.limit)
    /\ idx' = 1
    /\ pc' = "entry"
    /\ UNCHANGED <<dbVars, statusVars, page, argv, env_uri, cur, results, exc, events, diag>>

\* Lines 285-319: the detail page of entry idx is opened, loaded, read and
\* closed.  context.new_page() failing, or goto failing with anything but a
\* timeout, ends the iteration at line 349-350.
EntryDetail ==
    /\ pc = "entry"
    /\ idx <= Len(items)
    /\ \E newPageOk \in BOOLEAN, nav \in NavOutcomes, d \in DetailPages :
          IF ~newPageOk
          THEN /\ events' = Append(events, Event("item_error", idx, "NewPageError"))
               /\ idx' = idx + 1
               /\ pc' = "entry"
               /\ cur' = NoEntry
          ELSE IF ~NavCaught(nav)
          THEN /\ events' = events \o DetailEvents(idx, nav)
                                 \o <<Event("item_error", idx, "GotoError")>>
               /\ idx' = idx + 1
               /\ pc' = "entry"
               /\ cur' = NoEntry
          ELSE /\ events' = events \o DetailEvents(idx, nav)
               /\ cur' = IF nav = "ok" THEN Enrich(FromListing(items[idx]), d)
                         ELSE FromListing(items[idx])
               /\ idx' = idx
               /\ pc' = "persist"
    /\ UNCHANGED <<dbVars, statusVars, extractVars, argv, env_uri, results, exc, diag>>

\* Lines 321-346: the document is assembled and upserted, and appended to
\* results whether or not the upsert failed.
Persist ==
    /\ pc = "persist"
    /\ \E ctorOk \in BOOLEAN, pingOk \in BOOLEAN, updOk \in BOOLEAN :
          LET doc == Doc(items[idx], cur, now)
              r == upsert_hackathon(DbState, doc, ctorOk, pingOk, updOk)
          IN  /\ SetDb(r.g)
              /\ Record(r, IF r.err = NoError THEN r.g.clients[r.g._client].uri
                           ELSE MONGO_URI, doc)
              /\ lastCall' = [op |-> "upsert_hackathon", item |-> doc, uri |-> None,
                              err |-> r.err, cause |-> r.cause, calls |-> r.calls]
              /\ nCalls' = nCalls + 1
              /\ start_iso' = cur.begins_iso
              /\ end_iso' = cur.ends_iso
              /\ status' = determine_status_from_iso(cur.begins_iso, cur.ends_iso, now)
              /\ results' = Append(results, doc)
              /\ events' = events \o <<Event("upsert", idx, r.err),
                                       Event("append", idx, NoError)>>
    /\ pc' = "sleep"
    /\ UNCHANGED <<now, extractVars, argv, env_uri, idx, cur, exc, diag>>

\* Line 348: time.sleep(REQUEST_DELAY), then the next entry.
Sleep ==
    /\ pc = "sleep"
    /\ events' = Append(events, Event("sleep", idx, NoError))
    /\ idx' = idx + 1
    /\ cur' = NoEntry
    /\ pc' = "entry"
    /\ UNCHANGED <<dbVars, statusVars, extractVars, argv, env_uri, results, exc, diag>>

\* The loop has run over every entry.
LoopEnd ==
    /\ pc = "entry"
    /\ idx > Len(items)
    /\ pc' = "teardown"
    /\ UNCHANGED <<dbVars, statusVars, extractVars, argv, env_uri, idx, cur, results,
                   exc, events, diag>>

\* Lines 351-365: the listing page, the context and the browser are closed;
\* then results is returned, or the pending exception goes on to main, which
\* re-raises it.
Teardown ==
    /\ pc = "teardown"
    /\ \E c \in CloseOutcomes :
          events' = events \o TeardownEvents(c[1], c[2], c[3])
    /\ pc' = IF exc = NoError THEN "done" ELSE "raised"
    /\ UNCHANGED <<dbVars, statusVars, extractVars, argv, env_uri, idx, cur, results,
                   exc, diag>>

NextMain ==
    \/ MainOverride
    \/ DiagnoseDb
    \/ Launch
    \/ GotoListing
    \/ ExtractEntries
    \/ EntryDetail
    \/ Persist
    \/ Sleep
    \/ LoopEnd
    \/ Teardown

SpecMain == InitMain /\ [][NextMain]_vars

---------------------------------------------------------------------------
(* Claims about the persistence gateway, checked under Spec *)

\* The number of documents of docs whose id is v.
CountId(docs, v) == Cardinality({i \in 1..Len(docs) : docs[i].id = v})

\* A dict that has no 'id' key or a falsy 'id'.
NoUsableId(item) == IsDict(item) /\ ("id" \notin DOMAIN item \/ ~Truthy(item.id))

\* C1: upsert_hackathon called with a dict that has no 'id' key or a falsy
\* 'id' fails with the validation error (ValueError) before any store call:
\* the call makes no driver call at all (no MongoClient, no ping, no
\* update_one), and _client, MONGO_URI, the clients and the stores are the
\* same after the call as before it.
C1_InvalidItemFailsBeforeStore ==
    [][(/\ nCalls' = nCalls + 1
        /\ lastCall'.op = "upsert_hackathon"
        /\ NoUsableId(lastCall'.item))
       => (/\ lastCall'.err = "ValueError"
           /\ lastCall'.calls = <<>>
           /\ UNCHANGED <<MONGO_URI, _client, clients, store>>)]_vars

\* C1 witness: an upsert without a usable id has failed while a live client
\* and a stored document existed.
C1_Witness ==
    /\ lastCall.op = "upsert_hackathon"
    /\ lastCall.item = Dict("", "X")
    /\ lastCall.err = "ValueError"
    /\ _client # NoClient
    /\ Len(store[MONGO_URI]) > 0

\* C2: after any sequence of upsert_hackathon calls, each store holds exactly
\* one document per distinct id whose upsert returned (and none for the other
\* ids), so the first upsert of an id adds one document and a later one leaves
\* the count unchanged; the document's name is the name given by the most
\* recent returned upsert of that id that gave one.
C2_OneDocumentPerId ==
    \A u \in Uris :
        /\ \A i \in Ids :
              /\ CountId(store[u], i) = (IF upserted[u][i] > 0 THEN 1 ELSE 0)
              /\ upserted[u][i] > 0 =>
                    LET doc == store[u][FirstMatch(store[u], i)]
                    IN  IF lastName[u][i] = Missing
                        THEN "name" \notin DOMAIN doc
                        ELSE "name" \in DOMAIN doc /\ doc.name = lastName[u][i]
        /\ Len(store[u]) = Cardinality({i \in Ids : upserted[u][i] > 0})

\* C2 witness: id "abc" was upserted twice into one store, last with name
\* "Y", next to a document of another id.
C2_Witness ==
    /\ upserted[DefaultUri]["abc"] >= 2
    /\ lastCall.op = "upsert_hackathon"
    /\ lastCall.err = NoError
    /\ lastCall.item = Dict("abc", "Y")
    /\ lastCall.calls = <<"update_one">>
    /\ Len(store[DefaultUri]) = 2
    /\ store[DefaultUri][2] = Dict("abc", "Y")

\* C5: when the ping of a newly opened client fails, that client is closed,
\* _client is None again and the call fails with a RuntimeError whose cause is
\* the ping's error; _client is non-None only for a client whose ping
\* succeeded and that was not closed, so no later call can reuse a client
\* whose ping failed, and a call that then connects does so with a client
\* constructed by that call.
C5_FailedPingResetsClient ==
    /\ lastCall.cause = "PingError" =>
          /\ lastCall.err = "RuntimeError"
          /\ lastCall.calls = <<"MongoClient", "ping", "close">>
          /\ _client = NoClient
          /\ Len(clients) > 0
          /\ clients[Len(clients)].closed
          /\ ~clients[Len(clients)].pinged
    /\ _client # NoClient =>
          /\ _client \in 1..Len(clients)
          /\ clients[_client].pinged
          /\ ~clients[_client].closed
    /\ \A i \in 1..Len(clients) : ~clients[i].pinged => (clients[i].closed /\ _client # i)
    /\ (lastCall.op \in {"get_collection", "upsert_hackathon"}
            /\ lastCall.err = NoError /\ lastCall.calls # <<>>
            /\ lastCall.calls[1] = "MongoClient")
          => _client = Len(clients)

\* C5 witness: a call connected with a fresh client after an earlier client's
\* ping had failed.
C5_Witness ==
    /\ Len(clients) >= 2
    /\ ~clients[1].pinged
    /\ clients[1].closed
    /\ _client = 2
    /\ lastCall.calls = <<"MongoClient", "ping", "update_one">>

\* A step that is a call of set_mongo_uri does what C6 says of it.
C6_SetUriStep ==
    (nCalls' = nCalls + 1 /\ lastCall'.op = "set_mongo_uri")
    => IF Truthy(lastCall'.uri)
       THEN /\ MONGO_URI' = lastCall'.uri
            /\ _client' = NoClient
            /\ Len(clients') = Len(clients)
            /\ \A i \in 1..Len(clients) : clients'[i].closed
       ELSE UNCHANGED <<MONGO_URI, _client, clients, store>>

\* The live client was opened against the current connection string.
C6_ClientOfCurrentUri == _client # NoClient => clients[_client].uri = MONGO_URI

\* C6: set_mongo_uri with a non-empty uri makes it the connection string and
\* closes and drops the client there was; with a falsy uri it changes neither
\* the connection string nor the client.  Hence a live client is always one
\* that was opened against the current connection string, never against an
\* earlier one.
C6_SetMongoUriInvalidates == [][C6_SetUriStep]_vars /\ []C6_ClientOfCurrentUri

\* C6 witness: after set_mongo_uri changed the target while a client was
\* live, a call connected with a new client against the new uri.
C6_Witness ==
    /\ Len(clients) = 2
    /\ clients[1].uri = DefaultUri
    /\ clients[1].pinged
    /\ clients[1].closed
    /\ clients[2].uri = OtherUri
    /\ _client = 2
    /\ MONGO_URI = OtherUri

\* A step that constructs a client starts with _client absent and constructs
\* one client.
C7_OnlyWhenAbsent ==
    Len(clients') # Len(clients)
    => /\ _client = NoClient
       /\ Len(clients') = Len(clients) + 1

\* Every client but the one _client refers to has had close() called on it.
C7_UnreferencedClosed == \A i \in 1..Len(clients) : ~clients[i].closed => _client = i

\* C7: at most one client the gateway constructed has not had close() called
\* on it, and that one is the client _client refers to; a client is
\* constructed only by a call that found _client absent, one per call.
C7_SingleLiveConnection == [][C7_OnlyWhenAbsent]_vars /\ []C7_UnreferencedClosed

\* C7 witness: three clients were constructed, two of them closed (one whose
\* ping failed, one dropped by set_mongo_uri), the third live.
C7_Witness ==
    /\ Len(clients) = 3
    /\ clients[1].closed
    /\ clients[2].closed
    /\ \E i \in 1..2 : clients[i].pinged
    /\ \E i \in 1..2 : ~clients[i].pinged
    /\ _client = 3

---------------------------------------------------------------------------
(* Claims about determine_status_from_iso, checked under SpecStatus *)

\* Absent (None or "") or a well-formed timestamp, with or without a "Z".
AbsentIso(v) == v.form \in {"none", "empty"}
WellFormed(v) == v.form = "iso" /\ v.suffix \in {"", "Z"}
Malformed(v) == v.form = "malformed"

\* The decision rules of the status deriver, first match wins, on the times
\* the well-formed arguments denote.
RuleStatus(start, end, n) ==
    IF WellFormed(start) /\ n < start.t THEN "upcoming"
    ELSE IF WellFormed(start) /\ WellFormed(end) /\ start.t <= n /\ n <= end.t
    THEN "running"
    ELSE IF WellFormed(end) /\ n > end.t THEN "ended"
    ELSE "upcoming"

\* C3: for every (start, end) in which each value is absent or a well-formed
\* ISO timestamp, with or without a trailing "Z", the status returned is the
\* one the decision rules give at the current time.
C3_StatusFollowsRules ==
    (/\ status # Pending
     /\ AbsentIso(start_iso) \/ WellFormed(start_iso)
     /\ AbsentIso(end_iso) \/ WellFormed(end_iso))
    => /\ status.raised = NoError
       /\ status.ret = RuleStatus(start_iso, end_iso, now)

NaivePastEnd(end, n) == end.form = "iso" /\ end.suffix = "" /\ n > end.t

---------------------------------------------------------------------------
(* Claims about extract_listing_items, checked under SpecExtract *)

\* Heading h has an anchor with a non-empty href in its subtree or in the
\* subtree of one of its first four ancestors.
HasResolvableAnchor(h) ==
    \/ \E i \in 1..Len(h.sub) : TruthyHref(h.sub[i])
    \/ \E k \in 1..Len(h.anc) :
          /\ k <= 4
          /\ \E i \in 1..Len(h.anc[k].anchors) : TruthyHref(h.anc[k].anchors[i])

\* The URL heading k of the page resolves to: protocol-relative hrefs made
\* https, relative ones resolved against the page's URL (NoUrl: no href).
HeadingUrl(pg, k) ==
    LET href == FindHref(pg.h3_nodes[k])
    IN  IF TruthyHref(href) THEN ResolveUrl(pg.url, href) ELSE NoUrl

\* C10: the list returned has a non-empty URL in every entry and no URL
\* twice; a page with no matching heading gives the empty list; headings that
\* resolve to the same URL give one entry, built from the first of them in
\* page order; a heading with no resolvable anchor in its subtree or within 4
\* ancestor levels has no entry.
C10_EntriesDistinctResolved ==
    items # NotReturned =>
        /\ \A i \in 1..Len(items) : items[i].url # NoUrl
        /\ \A i, j \in 1..Len(items) : items[i].url = items[j].url => i = j
        /\ page.h3_nodes = <<>> => items = <<>>
        /\ page.queryRaises => items = <<>>
        /\ ~page.queryRaises =>
              \A k \in 1..Len(page.h3_nodes) :
                  /\ HeadingUrl(page, k) # NoUrl =>
                        \E i \in 1..Len(items) :
                            /\ items[i].url = HeadingUrl(page, k)
                            /\ items[i].h3 <= k
                            /\ \A m \in 1..(items[i].h3 - 1) :
                                  HeadingUrl(page, m) # HeadingUrl(page, k)
                  /\ ~HasResolvableAnchor(page.h3_nodes[k]) =>
                        \A i \in 1..Len(items) : items[i].h3 # k
        /\ \A i, j \in 1..Len(items) : i < j => items[i].h3 < items[j].h3

\* C10 witness: a page of three headings, the first two resolving to the same
\* URL (one by an absolute, one by a protocol-relative href) and the third
\* without a resolvable anchor, gave the single entry of the first heading.
C10_Witness ==
    /\ items # NotReturned
    /\ Len(page.h3_nodes) = 3
    /\ page.h3_nodes[1].sub = <<A_abs>>
    /\ page.h3_nodes[2].sub = <<A_protorel>>
    /\ ~HasResolvableAnchor(page.h3_nodes[3])
    /\ Len(items) = 1
    /\ items[1].h3 = 1
    /\ items[1].title = "Hack A"

---------------------------------------------------------------------------
(* Claims about the batch CLI, checked under SpecMain *)

\* The run recorded event e for entry k.
Happened(e, k) == \E i \in 1..Len(events) : events[i].e = e /\ events[i].k = k

\* The iteration of entry k ended in the handler of line 349.
ItemError(k) == Happened("item_error", k)

\* The detail page of entry k timed out, or its upsert failed.
TimedOut(k) ==
    \E i \in 1..Len(events) :
        events[i].e = "goto" /\ events[i].k = k /\ events[i].info = "timeout"
UpsertFailed(k) ==
    \E i \in 1..Len(events) :
        events[i].e = "upsert" /\ events[i].k = k /\ events[i].info # NoError

\* The entries from the k-th to the n-th whose iteration did not end in the
\* handler of line 349, in listing order.
RECURSIVE Kept(_, _)
Kept(k, n) ==
    IF k > n THEN <<>>
    ELSE (IF ItemError(k) THEN <<>> ELSE <<k>>) \o Kept(k + 1, n)

\* C8: when scrape_all_from_listing returns, every extracted (limit-cut)
\* entry was processed; an entry whose detail page timed out or whose upsert
\* failed is not dropped; results holds, in listing order, one document for
\* every entry but those that failed otherwise; so with no failure other than
\* timeouts and failed upserts it holds one document per entry.
C8_BatchSurvivesEntryFailures ==
    (pc = "done" /\ ~argv.diagnose_db) =>
        LET n == Len(items)
            kept == Kept(1, n)
        IN  /\ items = Truncate(extract_listing_items(page), argv.limit)
            /\ \A k \in 1..n : ItemError(k) \/ Happened("append", k)
            /\ \A k \in 1..n : (TimedOut(k) \/ UpsertFailed(k)) => ~ItemError(k)
            /\ Len(results) = Len(kept)
            /\ \A i \in 1..Len(kept) :
                  /\ results[i].id = slug_from_url(items[kept[i]].url)
                  /\ Happened("append", kept[i])
            /\ (\A k \in 1..n : ~ItemError(k)) => Len(results) = n

\* C8 witness: a run over two entries returned two documents although the
\* first entry's detail page timed out and its upsert failed, and the second
\* entry was upserted.
C8_Witness ==
    /\ pc = "done"
    /\ ~argv.diagnose_db
    /\ Len(items) = 2
    /\ TimedOut(1)
    /\ UpsertFailed(1)
    /\ ~UpsertFailed(2)
    /\ Len(results) = 2
    /\ results[1].id # results[2].id

\* C9: in a run started with --mongo-uri <uri>, every store connection the
\* run opens, by upsert_hackathon or by diagnose_db, is opened against <uri>.
C9_OverrideGovernsEveryConnection ==
    (pc # "idle" /\ Truthy(argv.mongo_uri)) =>
        /\ \A i \in 1..Len(clients) : clients[i].uri = argv.mongo_uri
        /\ diag # NoDiag => diag.uri = argv.mongo_uri

---------------------------------------------------------------------------
(* Claims about the browser resources of a run, checked under SpecMain *)

\* The positions of the log of the run.
Log == 1..Len(events)

\* The log records event e at position i.
IsEvent(i, e) == events[i].e = e

\* close() was called on the detail page opened at position i before
\* position j.
ClosedBetween(i, j) ==
    \E m \in Log :
        /\ i < m
        /\ m < j
        /\ IsEvent(m, "close_detail")
        /\ events[m].k = events[i].k

\* No detail page is opened while an earlier one has not been closed.
OneDetailPageAtATime ==
    \A j \in Log :
        IsEvent(j, "new_page") =>
            \A i \in 1..(j - 1) : IsEvent(i, "new_page") => ClosedBetween(i, j)

\* scrape_all_from_listing has been left, by return or by an exception.
Exited == pc \in {"done", "raised"}

\* The browser, the context and the listing page were all opened, so the
\* try of line 269 was entered.
SessionOpened == Happened("open_page", 0)

\* The log ends with the three closes of the finally of line 351, in the
\* order page, context, browser, each called once, after the close of every
\* detail page.
TornDown ==
    LET n == Len(events)
    IN  /\ n >= 3
        /\ IsEvent(n - 2, "close_page")
        /\ IsEvent(n - 1, "close_context")
        /\ IsEvent(n, "close_browser")
        /\ \A i \in 1..(n - 3) :
              events[i].e \notin {"close_page", "close_context", "close_browser"}
        /\ \A i \in Log : IsEvent(i, "new_page") => ClosedBetween(i, n - 2)

\* Some close of the teardown raised.
TeardownCloseFailed(e) ==
    \E i \in Log : IsEvent(i, e) /\ events[i].info = "CloseError"

\* C11: in a run of scrape_all_from_listing every detail page that was
\* opened is closed before the next one is opened, so at most one is open at
\* a time; and on every exit after the session was opened (return, listing
\* navigation failure, errors of entries) the run ends by closing the listing
\* page, the context and the browser in that order, each close called even
\* when an earlier one raised.
C11_DetailClosedThenSessionTornDown ==
    /\ OneDetailPageAtATime
    /\ (Exited /\ SessionOpened) => TornDown

\* C11 witness: a run returned after two detail pages were opened, the first
\* of which failed to load with an error other than a timeout; page.close()
\* and context.close() raised and browser.close() was still called.
C11_Witness ==
    /\ pc = "done"
    /\ SessionOpened
    /\ Happened("new_page", 1)
    /\ Happened("new_page", 2)
    /\ ItemError(1)
    /\ TeardownCloseFailed("close_page")
    /\ TeardownCloseFailed("close_context")
    /\ Happened("close_browser", 0)

---------------------------------------------------------------------------
(* Claims about the politeness delay, checked under SpecMain *)

\* The log passes from entry k to entry k + 1 at position j: events[j] is the
\* first event of entry k + 1 and events[j - 1] the last one of entry k.
NextEntryAt(j) ==
    /\ events[j - 1].k >= 1
    /\ events[j].k = events[j - 1].k + 1

\* C12: between the processing of any two consecutive listing entries one
\* sleep of REQUEST_DELAY occurs, whatever the outcome of the earlier entry:
\* success, navigation timeout, upsert failure, or another per-entry error
\* that is caught and logged.
C12_SleepBetweenEntries ==
    \A j \in 2..Len(events) : NextEntryAt(j) => IsEvent(j - 1, "sleep")

===========================================================================
